---------------------------- MODULE Spec2Model ----------------------------
(***************************************************************************)
(* A model of the wordle solver (crates/wordle-lib): the feedback codec    *)
(* WordMatch::from, the two dictionary representations and their           *)
(* partition, the candidate ranking of Guess, and the tree search solve /  *)
(* slow_solution / fast_solution.                                          *)
(*                                                                         *)
(* A word is a 5-tuple of byte values (97 = 'a').  A dictionary is the     *)
(* sequence of its words.  A HashMap<WordMatch, _> is a function whose     *)
(* domain is the set of keys present; wherever the code iterates over      *)
(* such a map the iteration order is an arbitrary permutation of the keys. *)
(***************************************************************************)
EXTENDS Integers, Sequences, FiniteSets, TLC

VARIABLES
    guess,      \* codec / partition: the guess word (or index) given
    answer,     \* codec: the answer word given
    matches,    \* codec: the WordMatch returned
    dict,       \* partition: the WordDictionary (sequence of words)
    offsets,    \* partition: the OffsetDictionary.words (sequence of indices)
    part,       \* partition: the map returned
    guesses,    \* solve: the guess pool
    answers,    \* solve: the answer pool
    same,       \* solve: ptr::eq(guesses, answers)
    breadth,    \* solve: beam width
    depth,      \* solve: depth budget
    hard,       \* solve: hard mode
    pc,         \* position of the running call
    nranked,    \* solve: candidates built by Guess::new in the ranking loop
    best,       \* solve: best_guesses, the retained candidates
    pending,    \* solve: indices of best whose parallel expansion has not run
    expanded,   \* solve: the expansions that returned Some, by index of best
    result,     \* solve: the Option<Solution> returned
    weight,     \* par_process: the base weight given
    costs,      \* par_process: the per-word function f, as a table
    partials,   \* par_process: the partial minima of the reduction so far
    total,      \* par_process and the batch modes: the Option<u32> returned
    search,     \* main: which entry of the program runs
    tasks,      \* main: the live calls of the tree search, by path
    called      \* main: the calls of solve made so far

vars == <<guess, answer, matches, dict, offsets, part, guesses, answers, same,
          breadth, depth, hard, pc, nranked, best, pending, expanded, result,
          weight, costs, partials, total, search, tasks, called>>

codecVars == <<guess, answer, matches>>
dictVars == <<dict, offsets, part>>
solveVars == <<guesses, answers, same, breadth, depth, hard, nranked, best,
               pending, expanded, result>>
parVars == <<weight, costs, partials, total>>
mainVars == <<search, tasks, called>>

-----------------------------------------------------------------------------
(* Bounds of the model. *)

NumLetters == 3     \* the codec is checked on all words over this many letters
MaxWords == 3       \* longest dictionary drawn
MaxBreadth == 2     \* largest beam width drawn
MaxDepth == 3       \* largest depth budget drawn

-----------------------------------------------------------------------------
(* word_match.rs *)

ABSENT == 0
CORRECT == 242

CmAbsent == 0
CmPresent == 1
CmCorrect == 2

POWERS == <<1, 3, 9, 27, 81>>

\* get(idx): the digit at a position (idx counted from 1 here)
Get(m, idx) == (m \div POWERS[idx]) % 3

\* set(idx, m): self.0 += m as u8 * POWERS[idx], on a u8
Set(m, idx, cm) == (m + cm * POWERS[idx]) % 256

\* 1 << (2 * (letter - 97)), on a u64; the letters drawn stay far below bit 31
Field(letter) == 4 ^ (letter - 97)

\* first loop of from: st = <<matches, available>>
RECURSIVE FirstPass(_, _, _, _)
FirstPass(g, a, i, st) ==
    IF i > 5 THEN st
    ELSE IF g[i] = a[i]
         THEN FirstPass(g, a, i + 1, <<Set(st[1], i, CmCorrect), st[2]>>)
         ELSE FirstPass(g, a, i + 1, <<st[1], st[2] + Field(a[i])>>)

\* second loop of from
RECURSIVE SecondPass(_, _, _)
SecondPass(g, i, st) ==
    IF i > 5 THEN st
    ELSE IF Get(st[1], i) = CmAbsent /\ (st[2] \div Field(g[i])) % 4 # 0
         THEN SecondPass(g, i + 1,
                         <<Set(st[1], i, CmPresent), st[2] - Field(g[i])>>)
         ELSE SecondPass(g, i + 1, st)

WordMatchFrom(g, a) == SecondPass(g, 1, FirstPass(g, a, 1, <<ABSENT, 0>>))[1]

-----------------------------------------------------------------------------
(* Values standing for "nothing yet". *)

NoWord == <<>>
NoMap == <<>>
NoSol == [guess |-> NoWord, size |-> 0, solution |-> {}]
None == [kind |-> "none", sol |-> NoSol]

-----------------------------------------------------------------------------
(* dict.rs *)

WordX == <<97, 97, 98, 98, 97>>     \* "aabba"
WordY == <<97, 97, 98, 98, 98>>     \* "aabbb"
WordZ == <<97, 97, 98, 98, 99>>     \* "aabbc"
WordW == <<97, 98, 99, 97, 98>>     \* "abcab"

\* The canonical answer list (LEGAL_ANSWERS), cut down to four words: the
\* first three differ in the last letter only, so that each of them, used as
\* a guess, leaves the other two together; the fourth tells all three apart.
LegalAnswers == <<WordX, WordY, WordZ, WordW>>

Pool == {LegalAnswers[i] : i \in 1..Len(LegalAnswers)}

\* The row length of the feedback table (2309 in dict.rs: the number of
\* canonical answers)
Stride == Len(LegalAnswers)

\* matches.bin as gen_dict writes it: for each guess, for each answer, one byte
MATCHES ==
    [k \in 0 .. (Stride * Stride - 1) |->
        WordMatchFrom(LegalAnswers[(k \div Stride) + 1],
                      LegalAnswers[(k % Stride) + 1])]

\* HashMap::entry(code).or_insert_with(with_capacity).push(w)
PushInto(map, code, w) ==
    IF code \in DOMAIN map
    THEN [map EXCEPT ![code] = Append(@, w)]
    ELSE [c \in (DOMAIN map) \cup {code} |->
            IF c = code THEN <<w>> ELSE map[c]]

\* WordDictionary::partition: for_each over the words in order
RECURSIVE WordPartitionFrom(_, _, _, _)
WordPartitionFrom(d, g, i, map) ==
    IF i > Len(d) THEN map
    ELSE WordPartitionFrom(d, g, i + 1,
                           PushInto(map, WordMatchFrom(g, d[i]), d[i]))

WordPartition(d, g) == WordPartitionFrom(d, g, 1, NoMap)

\* OffsetPartitionFrom with the table read by column: answer * Stride + guess
RECURSIVE OffsetPartitionTransposed(_, _, _, _)
OffsetPartitionTransposed(ws, g, i, map) ==
    IF i > Len(ws) THEN map
    ELSE OffsetPartitionTransposed(ws, g, i + 1,
                             PushInto(map, MATCHES[ws[i] * Stride + g], ws[i]))

\* OffsetDictionary::partition: the code is read from the table
RECURSIVE OffsetPartitionFrom(_, _, _, _)
OffsetPartitionFrom(ws, g, i, map) ==
    IF i > Len(ws) THEN map
    ELSE OffsetPartitionFrom(ws, g, i + 1,
                             PushInto(map, MATCHES[g * Stride + ws[i]], ws[i]))

OffsetPartition(ws, g) == OffsetPartitionFrom(ws, g, 1, NoMap)

-----------------------------------------------------------------------------
(* solve.rs: Guess *)

\* usize::MAX, what depth - 1 yields at depth 0 in a build without overflow
\* checks.  The value stands for 2^64 - 1; all that is used of it is that no
\* recursion is deep enough to count it down to 1.
UsizeMax == 2147483647

\* arithmetic on a u16 (Solution.size) in a build without overflow checks
U16(x) == x % 65536

Some(sol) == [kind |-> "some", sol |-> sol]
Panic == [kind |-> "panic", sol |-> NoSol]

\* Solution { guess, size: 1, solution: Vec::new() }
Leaf(w) == [guess |-> w, size |-> 1, solution |-> {}]

RECURSIVE ProductOfLens(_, _)
ProductOfLens(map, keys) ==
    IF keys = {} THEN 1
    ELSE LET k == CHOOSE x \in keys : TRUE
         IN  Len(map[k]) * ProductOfLens(map, keys \ {k})

\* The entropy field is the sum of log2(len) over the buckets.  It is kept
\* here as 2^entropy, the product of the bucket lengths: the order of two
\* sums of logarithms is the order of the two products, and entropy < 1.0
\* is product < 2.
Entropy2(partition) == ProductOfLens(partition, DOMAIN partition)

\* Guess::new
GuessNew(w, ans) ==
    LET partition == WordPartition(ans, w)
    IN  [word |-> w, entropy2 |-> Entropy2(partition), partition |-> partition]

\* fast_solution taking entropy <= 1.0 for entropy < 1.0
FastSolutionLoose(g, d) ==
    IF g.entropy2 < 3 /\ d > 1 /\ CORRECT \in DOMAIN g.partition
    THEN Some([guess |-> g.partition[CORRECT][1],
               size |-> U16(2 * U16(Cardinality(DOMAIN g.partition)) - 1),
               solution |-> {<<wm, Leaf(g.partition[wm][1])>> :
                                wm \in DOMAIN g.partition}])
    ELSE None

\* Guess::fast_solution.  The children are collected from the map's iterator:
\* they are kept as the set of (code, child) pairs, the order of the Vec being
\* the map's iteration order.
FastSolution(g, d) ==
    IF g.entropy2 < 2 /\ d > 1 /\ CORRECT \in DOMAIN g.partition
    THEN Some([guess |-> g.partition[CORRECT][1],
               size |-> U16(2 * U16(Cardinality(DOMAIN g.partition)) - 1),
               solution |-> {<<wm, Leaf(g.partition[wm][1])>> :
                                wm \in DOMAIN g.partition}])
    ELSE None

\* [u8; 5] compared lexicographically
WordLess(v, w) ==
    \E i \in 1..5 : v[i] < w[i] /\ \A j \in 1..(i - 1) : v[j] = w[j]

\* GuessLess with the entropies compared the other way round: self with other
GuessLessAscending(a, b) ==
    \/ a.entropy2 < b.entropy2
    \/ a.entropy2 = b.entropy2 /\ WordLess(a.word, b.word)

\* impl Ord for Guess: a < b.  cmp compares other.entropy with self.entropy,
\* then self.word with other.word.
GuessLess(a, b) ==
    \/ b.entropy2 < a.entropy2
    \/ b.entropy2 = a.entropy2 /\ WordLess(a.word, b.word)

-----------------------------------------------------------------------------
(* solve.rs: the ranking loop of solve (lines 162-182) *)

\* BinaryHeap::peek: the index of a greatest element.  The heap is kept as
\* the sequence of its elements; the position of an element in the heap's
\* array is not modelled.
PeekIndex(heap) ==
    CHOOSE i \in 1..Len(heap) : \A j \in 1..Len(heap) : ~GuessLess(heap[i], heap[j])

RemoveAt(seq, i) == SubSeq(seq, 1, i - 1) \o SubSeq(seq, i + 1, Len(seq))

\* The closure of RankFrom pushing every candidate, the heap never full
RECURSIVE RankFromAll(_, _, _, _, _, _)
RankFromAll(gs, ans, br, d1, i, heap) ==
    IF i > Len(gs) THEN [kind |-> "heap", sol |-> NoSol, heap |-> heap, n |-> Len(gs)]
    ELSE LET g == GuessNew(gs[i], ans)
             fast == FastSolution(g, d1)
         IN  IF Cardinality(DOMAIN g.partition) = 1
             THEN RankFromAll(gs, ans, br, d1, i + 1, heap)
             ELSE IF fast.kind = "some"
             THEN [kind |-> "break", sol |-> fast.sol, heap |-> <<>>, n |-> i]
             ELSE RankFromAll(gs, ans, br, d1, i + 1, Append(heap, g))

\* The closure given to try_for_each, applied to guesses[i..] in order, with
\* d1 the value of depth - 1.  Returns the loop's outcome: a Break carrying
\* the fast solution, the heap when the loop ran to its end, or a panic of
\* peek().unwrap() on an empty heap; n counts the calls of Guess::new.
RECURSIVE RankFrom(_, _, _, _, _, _)
RankFrom(gs, ans, br, d1, i, heap) ==
    IF i > Len(gs) THEN [kind |-> "heap", sol |-> NoSol, heap |-> heap, n |-> Len(gs)]
    ELSE LET g == GuessNew(gs[i], ans)
             fast == FastSolution(g, d1)
         IN  IF Cardinality(DOMAIN g.partition) = 1
             THEN RankFrom(gs, ans, br, d1, i + 1, heap)
             ELSE IF fast.kind = "some"
             THEN [kind |-> "break", sol |-> fast.sol, heap |-> <<>>, n |-> i]
             ELSE IF Len(heap) < br
             THEN RankFrom(gs, ans, br, d1, i + 1, Append(heap, g))
             ELSE IF Len(heap) = 0
             THEN [kind |-> "panic", sol |-> NoSol, heap |-> <<>>, n |-> i]
             ELSE IF GuessLess(g, heap[PeekIndex(heap)])
             THEN RankFrom(gs, ans, br, d1, i + 1,
                           Append(RemoveAt(heap, PeekIndex(heap)), g))
             ELSE RankFrom(gs, ans, br, d1, i + 1, heap)

\* The first guess whose partition has more than one bucket, 0 if none: the
\* guess at which depth - 1 is first computed.
FirstUseful(gs, ans) ==
    LET useful == {i \in 1..Len(gs) :
                      Cardinality(DOMAIN WordPartition(ans, gs[i])) # 1}
    IN  IF useful = {} THEN 0
        ELSE CHOOSE i \in useful : \A j \in useful : i <= j

\* depth handed down as it is, not decremented
Minus1Kept(d) == d

\* depth - 1 on a usize that did not panic
Minus1(d) == IF d = 0 THEN UsizeMax ELSE d - 1

\* The outcomes of the ranking loop.  At depth 0 the subtraction depth - 1
\* overflows: a build with overflow checks panics there, one without wraps.
RankOutcomes(gs, ans, br, d) ==
    {RankFrom(gs, ans, br, Minus1(d), 1, <<>>)} \cup
    (IF d = 0 /\ FirstUseful(gs, ans) # 0
     THEN {[kind |-> "panic", sol |-> NoSol, heap |-> <<>>,
            n |-> FirstUseful(gs, ans)]}
     ELSE {})

-----------------------------------------------------------------------------
(* solve.rs: slow_solution and solve *)

\* The orders in which a map with these keys can be iterated
Orders(keys) ==
    {o \in [1..Cardinality(keys) -> keys] :
        \A i, j \in 1..Cardinality(keys) : i # j => o[i] # o[j]}

\* any expansion that returned Some, not one of least size
AnyBySize(sols) == sols

\* min_by_key(|s| s.size) over the expansions that returned Some: an
\* expansion of least size.  Which one of several of the same least size is
\* returned depends on the order in which rayon reduces the items.
MinBySize(sols) == {t \in sols : \A u \in sols : t.size <= u.size}

\* AddBucket adding the sub-solution's size for the CORRECT bucket too
AddBucketAlways(solution, wm, len, sub) ==
    [guess |-> solution.guess,
     size |-> U16(U16(solution.size + len) + sub.size),
     solution |-> solution.solution \cup {<<wm, sub>>}]

\* The body of the closure slow_solution folds with (lines 81-88): the
\* sub-solution of bucket wm, of length len, added to the solution so far
AddBucket(solution, wm, len, sub) ==
    [guess |-> solution.guess,
     size |-> (IF wm # CORRECT
               THEN U16(U16(solution.size + len) + sub.size)
               ELSE U16(solution.size + len)),
     solution |-> solution.solution \cup {<<wm, sub>>}]

\* try_fold over the buckets in one iteration order: accs is the set of
\* values the accumulator can hold before bucket order[i]; subs[wm] is the set
\* of outcomes of the bucket's own step.  A None stops the fold.
RECURSIVE FoldBuckets(_, _, _, _, _)
FoldBuckets(partition, subs, order, i, accs) ==
    IF i > Len(order) THEN accs
    ELSE FoldBuckets(partition, subs, order, i + 1,
            {acc \in accs : acc.kind # "some"} \cup
            {IF sub.kind = "some"
             THEN Some(AddBucket(acc.sol, order[i], Len(partition[order[i]]), sub.sol))
             ELSE sub :
                acc \in {a \in accs : a.kind = "some"}, sub \in subs[order[i]]})

RECURSIVE SolveOutcomes(_, _, _, _, _, _)

\* BucketOutcomes handing down guesses in hard mode as in easy mode
BucketOutcomesEasy(g, partitions, gs, sm, br, d, hd, wm) ==
    SolveOutcomes(gs, g.partition[wm], FALSE, br, d, hd)

\* Lines 72-79 of slow_solution, for the bucket keyed wm: the guess pool for
\* the recursive call is the bucket itself (hard, guesses and answers the
\* same object), the bucket of partitions with the same key (hard), or
\* guesses; partitions.get(&wm).unwrap() panics when there is no such
\* bucket.  Then the recursive call of solve, whose guesses and answers are
\* the same object only in the first case.
BucketOutcomes(g, partitions, gs, sm, br, d, hd, wm) ==
    IF hd /\ sm
    THEN SolveOutcomes(g.partition[wm], g.partition[wm], TRUE, br, d, hd)
    ELSE IF hd
    THEN IF wm \in DOMAIN partitions
         THEN SolveOutcomes(partitions[wm], g.partition[wm], FALSE, br, d, hd)
         ELSE {Panic}
    ELSE SolveOutcomes(gs, g.partition[wm], FALSE, br, d, hd)

\* Guess::slow_solution(self = g, guesses, answers, breadth, depth, hard),
\* with sm = ptr::eq(guesses, answers): the set of its outcomes over the
\* iteration orders of self.partition.
SlowOutcomes(g, gs, ans, sm, br, d, hd) ==
    LET partitions == IF hd /\ ~sm THEN WordPartition(gs, g.word) ELSE NoMap
        subs == [wm \in DOMAIN g.partition |->
                    BucketOutcomes(g, partitions, gs, sm, br, d, hd, wm)]
        init == Some([guess |-> g.word, size |-> 0, solution |-> {}])
    IN  UNION {FoldBuckets(g.partition, subs, o, 1, {init}) :
                  o \in Orders(DOMAIN g.partition)}

\* The sets of Some results the parallel expansions of heap[i..] can leave,
\* given the sets sofar left by the earlier ones; outs[i] are the outcomes of
\* expansion i that did not panic.
RECURSIVE Expansions(_, _, _)
Expansions(outs, i, sofar) ==
    IF i > Len(outs) THEN sofar
    ELSE Expansions(outs, i + 1,
            {IF o.kind = "some" THEN s \cup {o.sol} ELSE s :
                s \in sofar, o \in {x \in outs[i] : x.kind # "panic"}})

\* The parallel part of solve (lines 183-186) on the retained candidates
ExpandOutcomes(heap, gs, ans, sm, br, d1, hd) ==
    LET outs == [i \in 1..Len(heap) |->
                    SlowOutcomes(heap[i], gs, ans, sm, br, d1, hd)]
        left == Expansions(outs, 1, {{}})
    IN  (IF \E i \in 1..Len(heap) : Panic \in outs[i] THEN {Panic} ELSE {})
        \cup (IF {} \in left THEN {None} ELSE {})
        \cup {Some(t) : t \in UNION {MinBySize(s) : s \in left}}

\* SolveBase testing the depth before the number of answers
SolveBaseDepthFirst(ans, d) ==
    IF d = 1 THEN None
    ELSE IF Len(ans) = 1 THEN Some(Leaf(ans[1]))
    ELSE [kind |-> "continue", sol |-> NoSol]

\* SolveBase cutting off at depth 0, not at depth 1
SolveBaseDepthZero(ans, d) ==
    IF Len(ans) = 1 THEN Some(Leaf(ans[1]))
    ELSE IF d = 0 THEN None
    ELSE [kind |-> "continue", sol |-> NoSol]

\* The base cases of solve (lines 152-161): the result returned, or
\* "continue" when neither applies
SolveBase(ans, d) ==
    IF Len(ans) = 1 THEN Some(Leaf(ans[1]))
    ELSE IF d = 1 THEN None
    ELSE [kind |-> "continue", sol |-> NoSol]

\* solve(guesses, answers, breadth, depth, hard), with sm = ptr::eq(guesses,
\* answers): the set of its outcomes
SolveOutcomes(gs, ans, sm, br, d, hd) ==
    IF SolveBase(ans, d).kind # "continue" THEN {SolveBase(ans, d)}
    ELSE UNION {
            IF r.kind = "break" THEN {Some(r.sol)}
            ELSE IF r.kind = "panic" THEN {Panic}
            ELSE ExpandOutcomes(r.heap, gs, ans, sm, br, Minus1(d), hd) :
            r \in RankOutcomes(gs, ans, br, d)}

-----------------------------------------------------------------------------
(* Inputs drawn. *)

Letters == 97 .. (96 + NumLetters)
AllWords == [1..5 -> Letters]

SeqsUpTo(S, n) == UNION {[1..k -> S] : k \in 0..n}

\* The dictionaries partition is applied to: any words, repeated or not
Dicts == SeqsUpTo(Pool, MaxWords)
OffsetDicts == SeqsUpTo(0 .. (Stride - 1), MaxWords)

\* The word lists solve is applied to: lists of distinct words, in any order
WordLists ==
    {d \in Dicts : \A i, j \in 1..Len(d) : i # j => d[i] # d[j]}

IdleCodec == guess = NoWord /\ answer = NoWord /\ matches = ABSENT
IdleDict == dict = <<>> /\ offsets = <<>> /\ part = NoMap
IdleSolve ==
    /\ guesses = <<>> /\ answers = <<>> /\ same = FALSE
    /\ breadth = 0 /\ depth = 0 /\ hard = FALSE
    /\ nranked = 0 /\ best = <<>> /\ pending = {} /\ expanded = <<>>
    /\ result = None
IdlePar == weight = 0 /\ costs = <<>> /\ partials = {} /\ total = <<>>
IdleMain == search = "" /\ tasks = <<>> /\ called = {}

-----------------------------------------------------------------------------
(* The codec applied to every pair of words over the first NumLetters      *)
(* letters.                                                                *)

InitMatch ==
    /\ guess \in AllWords
    /\ answer \in AllWords
    /\ matches = ABSENT
    /\ pc = "match"
    /\ IdleDict /\ IdleSolve /\ IdlePar /\ IdleMain

ComputeMatch ==
    /\ pc = "match"
    /\ matches' = WordMatchFrom(guess, answer)
    /\ pc' = "matched"
    /\ UNCHANGED <<guess, answer, dictVars, solveVars, parVars, mainVars>>

NextMatch == ComputeMatch

SpecMatch == InitMatch /\ [][NextMatch]_vars

-----------------------------------------------------------------------------
(* partition applied to every dictionary drawn, in both representations.   *)

InitDict ==
    /\ \/ /\ pc = "words"
          /\ dict \in Dicts
          /\ offsets = <<>>
          /\ guess \in Pool
       \/ /\ pc = "offsets"
          /\ dict = <<>>
          /\ offsets \in OffsetDicts
          /\ guess \in 0 .. (Stride - 1)
    /\ answer = NoWord /\ matches = ABSENT
    /\ part = NoMap
    /\ IdleSolve /\ IdlePar /\ IdleMain

PartitionWords ==
    /\ pc = "words"
    /\ part' = WordPartition(dict, guess)
    /\ pc' = "words_done"
    /\ UNCHANGED <<codecVars, dict, offsets, solveVars, parVars, mainVars>>

PartitionOffsets ==
    /\ pc = "offsets"
    /\ part' = OffsetPartition(offsets, guess)
    /\ pc' = "offsets_done"
    /\ UNCHANGED <<codecVars, dict, offsets, solveVars, parVars, mainVars>>

NextDict == PartitionWords \/ PartitionOffsets

SpecDict == InitDict /\ [][NextDict]_vars

-----------------------------------------------------------------------------
(* solve applied to the pools drawn.  The top-level call runs in steps: its  *)
(* base cases, its ranking loop, one step per parallel expansion in any      *)
(* order, and the reduction; the calls below it are taken whole.             *)

Init ==
    /\ IdleCodec /\ IdleDict /\ IdlePar /\ IdleMain
    /\ guesses \in WordLists
    /\ answers \in WordLists
    /\ same \in {FALSE} \cup {guesses = answers}
    /\ breadth \in 0..MaxBreadth
    /\ depth \in 0..MaxDepth
    /\ hard \in BOOLEAN
    /\ pc = "entry"
    /\ nranked = 0 /\ best = <<>> /\ pending = {} /\ expanded = <<>>
    /\ result = None

\* lines 152-161
SolveReturnBase ==
    /\ pc = "entry"
    /\ SolveBase(answers, depth).kind # "continue"
    /\ result' = SolveBase(answers, depth)
    /\ pc' = "returned"
    /\ UNCHANGED <<codecVars, dictVars, parVars, mainVars, guesses, answers,
                   same, breadth, depth,
                   hard, nranked, best, pending, expanded>>

\* lines 162-182
SolveRank ==
    /\ pc = "entry"
    /\ SolveBase(answers, depth).kind = "continue"
    /\ \E r \in RankOutcomes(guesses, answers, breadth, depth) :
          /\ nranked' = r.n
          /\ \/ /\ r.kind = "break"
                /\ result' = Some(r.sol)
                /\ pc' = "returned"
                /\ UNCHANGED <<best, pending>>
             \/ /\ r.kind = "panic"
                /\ pc' = "panicked"
                /\ UNCHANGED <<best, pending, result>>
             \/ /\ r.kind = "heap"
                /\ best' = r.heap
                /\ pending' = 1..Len(r.heap)
                /\ pc' = "expand"
                /\ UNCHANGED result
    /\ UNCHANGED <<codecVars, dictVars, parVars, mainVars, guesses, answers,
                   same, breadth, depth,
                   hard, expanded>>

\* line 185, for one retained candidate
ExpandOne ==
    /\ pc = "expand"
    /\ \E i \in pending :
       \E o \in SlowOutcomes(best[i], guesses, answers, same, breadth,
                             Minus1(depth), hard) :
          /\ pending' = pending \ {i}
          /\ \/ /\ o.kind = "some"
                /\ expanded' = [j \in (DOMAIN expanded) \cup {i} |->
                                   IF j = i THEN o.sol ELSE expanded[j]]
                /\ pc' = pc
             \/ /\ o.kind = "none"
                /\ UNCHANGED <<expanded, pc>>
             \/ /\ o.kind = "panic"
                /\ pc' = "panicked"
                /\ UNCHANGED expanded
    /\ UNCHANGED <<codecVars, dictVars, parVars, mainVars, guesses, answers,
                   same, breadth, depth,
                   hard, nranked, best, result>>

\* line 186
SolveReduce ==
    /\ pc = "expand"
    /\ pending = {}
    /\ LET sols == {expanded[i] : i \in DOMAIN expanded}
       IN  \/ /\ sols = {}
              /\ result' = None
           \/ \E t \in MinBySize(sols) : result' = Some(t)
    /\ pc' = "returned"
    /\ UNCHANGED <<codecVars, dictVars, parVars, mainVars, guesses, answers,
                   same, breadth, depth,
                   hard, nranked, best, pending, expanded>>

Next == SolveReturnBase \/ SolveRank \/ ExpandOne \/ SolveReduce

Spec == Init /\ [][Next]_vars

-----------------------------------------------------------------------------
(* The feedback of the rules of the game, stated position by position.     *)

\* Position i of guess g against answer a is marked Present
RECURSIVE RefPresent(_, _, _)
RefPresent(g, a, i) ==
    /\ g[i] # a[i]
    /\ Cardinality({j \in 1..5 : a[j] # g[j] /\ a[j] = g[i]})
         > Cardinality({j \in 1..(i - 1) :
                           g[j] # a[j] /\ g[j] = g[i] /\ RefPresent(g, a, j)})

RefDigit(g, a, i) ==
    IF g[i] = a[i] THEN CmCorrect
    ELSE IF RefPresent(g, a, i) THEN CmPresent
    ELSE CmAbsent

RefFeedback(g, a) ==
    RefDigit(g, a, 1) * POWERS[1] + RefDigit(g, a, 2) * POWERS[2]
    + RefDigit(g, a, 3) * POWERS[3] + RefDigit(g, a, 4) * POWERS[4]
    + RefDigit(g, a, 5) * POWERS[5]

\* C2: for every guess and answer, WordMatch::from returns the two-pass
\* feedback of the rules: Correct where the letters agree, Present while
\* unmatched occurrences of the letter remain in the answer, else Absent.
C2_MatchesReference ==
    pc = "matched" => matches = RefFeedback(guess, answer)

-----------------------------------------------------------------------------
(* partition *)

RECURSIVE SumOfLens(_, _)
SumOfLens(map, keys) ==
    IF keys = {} THEN 0
    ELSE LET k == CHOOSE x \in keys : TRUE
         IN  Len(map[k]) + SumOfLens(map, keys \ {k})

Members(bucket) == {bucket[i] : i \in 1..Len(bucket)}

\* The feedback of guess g against member m in the representation at hand:
\* words, or indices into the canonical answer list
FeedbackIn(rep, g, m) ==
    IF rep = "words_done" THEN WordMatchFrom(g, m)
    ELSE WordMatchFrom(LegalAnswers[g + 1], LegalAnswers[m + 1])

\* C3: in both representations the buckets partition returns are non-empty
\* and pairwise disjoint, their lengths sum to the length of the dictionary,
\* and every member of the bucket keyed c has feedback c against the guess.
C3_PartitionBuckets ==
    pc \in {"words_done", "offsets_done"} =>
        /\ \A c \in DOMAIN part : Len(part[c]) > 0
        /\ \A c1, c2 \in DOMAIN part :
              c1 # c2 => Members(part[c1]) \cap Members(part[c2]) = {}
        /\ SumOfLens(part, DOMAIN part) = Len(dict) + Len(offsets)
        /\ \A c \in DOMAIN part : \A i \in 1..Len(part[c]) :
              FeedbackIn(pc, guess, part[c][i]) = c

\* A partition of three members into more than one bucket, one of them
\* holding a repeated member, in the index representation
C3_Witness ==
    /\ pc = "offsets_done"
    /\ Len(offsets) = 3
    /\ Cardinality(DOMAIN part) = 2
    /\ \E c \in DOMAIN part : Len(part[c]) = 2 /\ part[c][1] = part[c][2]

-----------------------------------------------------------------------------
(* Decision trees as policies *)

Returned == pc = "returned" /\ result.kind = "some"

Children(node, c) == {p \in node.solution : p[1] = c}

\* Following from node the child keyed by the feedback of the node's guess
\* against a: a child is always found, and the walk ends at a node whose
\* guess is a, a leaf or the child keyed CORRECT
RECURSIVE Reaches(_, _)
Reaches(node, a) ==
    IF node.solution = {} THEN node.guess = a
    ELSE LET c == WordMatchFrom(node.guess, a)
         IN  /\ Cardinality(Children(node, c)) = 1
             /\ \A p \in Children(node, c) :
                   IF c = CORRECT
                   THEN p[2].guess = a /\ p[2].solution = {}
                   ELSE Reaches(p[2], a)

\* The number of guesses the policy makes until it guesses a (large when the
\* walk finds no child)
RECURSIVE GuessCount(_, _)
GuessCount(node, a) ==
    IF node.guess = a THEN 1
    ELSE LET next == Children(node, WordMatchFrom(node.guess, a))
         IN  IF next = {} THEN 1000
             ELSE 1 + GuessCount((CHOOSE p \in next : TRUE)[2], a)

RECURSIVE SumOfGuessCounts(_, _, _)
SumOfGuessCounts(node, ans, i) ==
    IF i > Len(ans) THEN 0
    ELSE GuessCount(node, ans[i]) + SumOfGuessCounts(node, ans, i + 1)

\* Plies of the tree, not counting children keyed CORRECT
RECURSIVE Plies(_)
Plies(node) ==
    LET below == {Plies(p[2]) : p \in {q \in node.solution : q[1] # CORRECT}}
    IN  IF below = {} THEN 1
        ELSE 1 + (CHOOSE m \in below : \A n \in below : n <= m)

\* C1: a tree solve returns is a complete policy for answers: the walk for
\* every answer finds a child at every node and ends at a node guessing it.
C1_CompletePolicy ==
    Returned => \A i \in 1..Len(answers) : Reaches(result.sol, answers[i])

\* A tree of three plies over three answers, built by slow_solution
C1_Witness ==
    /\ Returned
    /\ Len(answers) = 3
    /\ DOMAIN expanded # {}
    /\ Plies(result.sol) = 3

\* C4: the size of the root is the sum, over the answers, of the number of
\* guesses the policy makes to identify the answer.
C4_SizeIsTotalGuesses ==
    Returned => result.sol.size = SumOfGuessCounts(result.sol, answers, 1)

\* A tree in which the three answers take one, two and three guesses
C4_Witness ==
    /\ Returned
    /\ depth = 3
    /\ Len(answers) = 3
    /\ result.sol.size = 6
    /\ {GuessCount(result.sol, answers[i]) : i \in 1..3} = {1, 2, 3}

\* C5: for depth >= 1, a tree solve returns identifies every answer within
\* depth guesses.
C5_WithinDepth ==
    Returned /\ depth >= 1 =>
        \A i \in 1..Len(answers) : GuessCount(result.sol, answers[i]) <= depth

\* A tree that uses the whole budget
C5_Witness ==
    /\ Returned
    /\ depth = 3
    /\ \E i \in 1..Len(answers) : GuessCount(result.sol, answers[i]) = depth

\* Every guess below node agrees with the feedback of every guess on the
\* path to it: hist is the sequence of (guess, code) pairs seen above node
RECURSIVE HardConsistent(_, _)
HardConsistent(node, hist) ==
    \A p \in node.solution :
        LET seen == Append(hist, <<node.guess, p[1]>>)
        IN  /\ \A k \in 1..Len(seen) :
                  WordMatchFrom(seen[k][1], p[2].guess) = seen[k][2]
            /\ HardConsistent(p[2], seen)

\* C6: in hard mode every guess below the root of a returned tree is
\* consistent with all the feedback received earlier on its path.
C6_HardModeConsistent ==
    Returned /\ hard => HardConsistent(result.sol, <<>>)

\* A hard-mode tree of three plies whose guess pool is not the answer pool
C6_Witness ==
    /\ Returned /\ hard /\ ~same
    /\ depth = 3
    /\ Plies(result.sol) = 3

Minimal == MinBySize({expanded[i] : i \in DOMAIN expanded})

\* C8: among the expansions of the same least size, solve returns the one
\* whose guess word is smallest.
C8_TieByWordOrder ==
    Returned /\ DOMAIN expanded # {} =>
        \A t \in Minimal : ~WordLess(t.guess, result.sol.guess)

\* C9: over a single answer solve returns the leaf guessing it, of size 1 and
\* without children, and does nothing else.
C9_SingleAnswerLeaf ==
    Len(answers) = 1 =>
        /\ pc \in {"entry", "returned"}
        /\ pc = "returned" =>
              /\ result.kind = "some"
              /\ result.sol.guess = answers[1]
              /\ result.sol.size = 1
              /\ result.sol.solution = {}

\* The leaf returned with no guesses, breadth 0 and depth 0, in hard mode;
\* and with depth 1 and a guess pool that does not hold the answer
C9_Witness ==
    /\ Returned /\ Len(answers) = 1
    /\ \/ guesses = <<>> /\ breadth = 0 /\ depth = 0 /\ hard
       \/ guesses # <<>> /\ depth = 1 /\ \A i \in 1..Len(guesses) : guesses[i] # answers[1]

\* C10: with depth 1 and more than one answer solve returns None, having
\* ranked and expanded no candidate.
C10_DepthOneAbsent ==
    depth = 1 /\ Len(answers) > 1 =>
        /\ pc \in {"entry", "returned"}
        /\ pc = "returned" => result = None
        /\ nranked = 0 /\ best = <<>> /\ pending = {} /\ DOMAIN expanded = {}

\* None returned at depth 1 over three answers, with guesses at hand that
\* would tell them apart
C10_Witness ==
    /\ pc = "returned" /\ result = None
    /\ depth = 1 /\ Len(answers) = 3
    /\ WordW \in {guesses[i] : i \in 1..Len(guesses)}
    /\ breadth > 0

-----------------------------------------------------------------------------
(* dict.rs: par_process.  The members are handed to f in parallel;          *)
(* filter_map drops the None results and min() reduces what is left, items  *)
(* and partial results being combined in whatever grouping the scheduler    *)
(* produces.  An Option<u32> is <<>> for None and <<n>> for Some(n).         *)

OptNone == <<>>
OptSome(n) == <<n>>

\* The values f returns, and the base weights given
CostOpts == {OptNone, OptSome(1), OptSome(2)}
Weights == {0, 5}

\* the left operand kept, whatever the right one is
ParLeft(a, b) == a

\* Ord::min on u32, the operator of the reduction
ParMin(a, b) == IF b < a THEN b ELSE a

\* min() over two partial results, either of which may hold no item
ParReduce(p, q) ==
    IF p = OptNone THEN q
    ELSE IF q = OptNone THEN p
    ELSE OptSome(ParMin(p[1], q[1]))

\* .map(|sub_weight| weight + sub_weight)
ParWeigh(w, m) == IF m = OptNone THEN OptNone ELSE OptSome(w + m[1])

\* The index lists an OffsetDictionary holds: distinct indices, as
\* OffsetDictionary::new and partition produce them
OffsetLists ==
    {d \in OffsetDicts : \A i, j \in 1..Len(d) : i # j => d[i] # d[j]}

\* The members par_process runs over: self.0 in words, or self.words
ParItems == IF pc \in {"par_words", "par_words_done"} THEN dict ELSE offsets

\* The positions of ParItems whose f has run
ParCovered == UNION {p.of : p \in partials}

InitPar ==
    /\ \/ /\ pc = "par_words"
          /\ dict \in WordLists
          /\ offsets = <<>>
          /\ costs \in [Pool -> CostOpts]
       \/ /\ pc = "par_offsets"
          /\ dict = <<>>
          /\ offsets \in OffsetLists
          /\ costs \in [0 .. (Stride - 1) -> CostOpts]
    /\ weight \in Weights
    /\ partials = {}
    /\ total = OptNone
    /\ IdleCodec /\ part = NoMap /\ IdleSolve /\ IdleMain

\* filter_map(f) on one member, on whichever thread takes it
ParEval ==
    /\ pc \in {"par_words", "par_offsets"}
    /\ \E i \in (1..Len(ParItems)) \ ParCovered :
          partials' = partials \cup {[of |-> {i}, min |-> costs[ParItems[i]]]}
    /\ UNCHANGED <<codecVars, dictVars, solveVars, mainVars, pc, weight, costs,
                   total>>

\* min() on two partial results
ParCombine ==
    /\ pc \in {"par_words", "par_offsets"}
    /\ \E p, q \in partials :
          /\ p # q
          /\ partials' = (partials \ {p, q}) \cup
                {[of |-> p.of \cup q.of, min |-> ParReduce(p.min, q.min)]}
    /\ UNCHANGED <<codecVars, dictVars, solveVars, mainVars, pc, weight, costs,
                   total>>

\* the reduction is complete: the weight is added and the call returns
ParFinish ==
    /\ pc \in {"par_words", "par_offsets"}
    /\ ParCovered = 1..Len(ParItems)
    /\ Cardinality(partials) <= 1
    /\ total' = ParWeigh(weight, IF partials = {} THEN OptNone
                                 ELSE (CHOOSE p \in partials : TRUE).min)
    /\ \/ pc = "par_words" /\ pc' = "par_words_done"
       \/ pc = "par_offsets" /\ pc' = "par_offsets_done"
    /\ UNCHANGED <<codecVars, dictVars, solveVars, mainVars, weight, costs,
                   partials>>

NextPar == ParEval \/ ParCombine \/ ParFinish

SpecPar == InitPar /\ [][NextPar]_vars

\* The costs of the members on which f succeeds
ParSucceeded ==
    {costs[ParItems[i]][1] :
        i \in {j \in 1..Len(ParItems) : costs[ParItems[j]] # OptNone}}

\* C11: par_process returns the weight plus the least cost f gives on a
\* member, and None when f fails on every member or there is none, whatever
\* the order in which the members are evaluated and combined.
C11_ParProcessMin ==
    pc \in {"par_words_done", "par_offsets_done"} =>
        total = IF ParSucceeded = {} THEN OptNone
                ELSE OptSome(weight +
                        (CHOOSE m \in ParSucceeded : \A n \in ParSucceeded : m <= n))

\* Three members under a positive weight: f fails on one, and the least cost
\* is not that of the first member
C11_Witness ==
    /\ pc = "par_words_done"
    /\ Len(dict) = 3
    /\ weight > 0
    /\ costs[dict[1]] = OptSome(2)
    /\ costs[dict[2]] = OptNone
    /\ costs[dict[3]] = OptSome(1)
    /\ total = OptSome(weight + 1)

-----------------------------------------------------------------------------
(* solve.rs: the ranking loop of solve taken one guess at a time.  Each    *)
(* step is one call of the closure given to try_for_each (lines 163-179),  *)
(* on guesses[nranked + 1]; best is best_guesses.                          *)

rankFixed == <<codecVars, dictVars, parVars, mainVars, guesses, answers, same,
               breadth, depth, hard, pending, expanded>>

\* The calls of solve that get past its base cases
InitRank ==
    /\ IdleCodec /\ IdleDict /\ IdlePar /\ IdleMain
    /\ guesses \in WordLists
    /\ answers \in {a \in WordLists : Len(a) # 1}
    /\ same = FALSE
    /\ breadth \in 0..MaxBreadth
    /\ depth \in (0..MaxDepth) \ {1}
    /\ hard = FALSE
    /\ pc = "rank"
    /\ nranked = 0 /\ best = <<>> /\ pending = {} /\ expanded = <<>>
    /\ result = None

\* The candidate the closure builds at this step (line 164)
Arriving == GuessNew(guesses[nranked + 1], answers)

\* lines 165-168
RankSkip ==
    /\ pc = "rank" /\ nranked < Len(guesses)
    /\ Cardinality(DOMAIN Arriving.partition) = 1
    /\ nranked' = nranked + 1
    /\ UNCHANGED <<rankFixed, best, pc, result>>

\* line 169 at depth 0, in a build with overflow checks
RankOverflow ==
    /\ pc = "rank" /\ nranked < Len(guesses)
    /\ Cardinality(DOMAIN Arriving.partition) # 1
    /\ depth = 0
    /\ nranked' = nranked + 1
    /\ pc' = "panicked"
    /\ UNCHANGED <<rankFixed, best, result>>

\* lines 169-171
RankBreak ==
    /\ pc = "rank" /\ nranked < Len(guesses)
    /\ Cardinality(DOMAIN Arriving.partition) # 1
    /\ FastSolution(Arriving, Minus1(depth)).kind = "some"
    /\ nranked' = nranked + 1
    /\ result' = FastSolution(Arriving, Minus1(depth))
    /\ pc' = "returned"
    /\ UNCHANGED <<rankFixed, best>>

\* lines 172-173
RankPush ==
    /\ pc = "rank" /\ nranked < Len(guesses)
    /\ Cardinality(DOMAIN Arriving.partition) # 1
    /\ FastSolution(Arriving, Minus1(depth)).kind # "some"
    /\ Len(best) < breadth
    /\ nranked' = nranked + 1
    /\ best' = Append(best, Arriving)
    /\ UNCHANGED <<rankFixed, pc, result>>

\* line 174 on an empty heap: peek().unwrap() panics
RankPanic ==
    /\ pc = "rank" /\ nranked < Len(guesses)
    /\ Cardinality(DOMAIN Arriving.partition) # 1
    /\ FastSolution(Arriving, Minus1(depth)).kind # "some"
    /\ ~(Len(best) < breadth)
    /\ Len(best) = 0
    /\ nranked' = nranked + 1
    /\ pc' = "panicked"
    /\ UNCHANGED <<rankFixed, best, result>>

\* lines 174-176
RankEvict ==
    /\ pc = "rank" /\ nranked < Len(guesses)
    /\ Cardinality(DOMAIN Arriving.partition) # 1
    /\ FastSolution(Arriving, Minus1(depth)).kind # "some"
    /\ ~(Len(best) < breadth)
    /\ Len(best) # 0
    /\ GuessLess(Arriving, best[PeekIndex(best)])
    /\ nranked' = nranked + 1
    /\ best' = Append(RemoveAt(best, PeekIndex(best)), Arriving)
    /\ UNCHANGED <<rankFixed, pc, result>>

\* line 174 false: the arriving candidate is dropped
RankKeep ==
    /\ pc = "rank" /\ nranked < Len(guesses)
    /\ Cardinality(DOMAIN Arriving.partition) # 1
    /\ FastSolution(Arriving, Minus1(depth)).kind # "some"
    /\ ~(Len(best) < breadth)
    /\ Len(best) # 0
    /\ ~GuessLess(Arriving, best[PeekIndex(best)])
    /\ nranked' = nranked + 1
    /\ UNCHANGED <<rankFixed, best, pc, result>>

\* the loop ran to its end (line 179, Continue)
RankEnd ==
    /\ pc = "rank" /\ nranked = Len(guesses)
    /\ pc' = "ranked"
    /\ UNCHANGED <<rankFixed, nranked, best, result>>

NextRank ==
    \/ RankSkip \/ RankOverflow \/ RankBreak \/ RankPush \/ RankPanic
    \/ RankEvict \/ RankKeep \/ RankEnd

SpecRank == InitRank /\ [][NextRank]_vars

\* The guesses that are candidates: their partition of answers has other
\* than one bucket
CandIdx ==
    {i \in 1..Len(guesses) :
        Cardinality(DOMAIN WordPartition(answers, guesses[i])) # 1}

\* 2^score of the candidate built from guesses[i]
Score2(i) == GuessNew(guesses[i], answers).entropy2

RetainedWords == {best[k].word : k \in 1..Len(best)}

\* The candidates that were built and are not retained
Discarded == {i \in CandIdx : guesses[i] \notin RetainedWords}

\* A step of the loop that pops one retained candidate and pushes the
\* arriving one; k is the position popped
Evicts(k) ==
    /\ pc = "rank" /\ pc' = "rank"
    /\ Len(best) > 0
    /\ k \in 1..Len(best)
    /\ best' = Append(RemoveAt(best, k), Arriving)

-----------------------------------------------------------------------------
(* solve.rs: the batch modes solve_easy, solve_hard and solve_hard_limited. *)
(* par_process is taken whole here: filter_map(f) leaves the Some results   *)
(* of f on the members, min() reduces them and the weight is added.         *)

RECURSIVE ParFold(_, _, _)
ParFold(opts, i, acc) ==
    IF i > Len(opts) THEN acc
    ELSE ParFold(opts, i + 1, ParReduce(acc, opts[i]))

\* par_process(weight, f), opts being the results of f on the members
ParProcess(opts, w) == ParWeigh(w, ParFold(opts, 1, OptNone))

\* no credit taken for the Correct bucket
InitCreditNone(partition) == 0

\* partition.remove(&WordMatch::CORRECT).map(|_| 1).unwrap_or(0)
InitCredit(partition) == IF CORRECT \in DOMAIN partition THEN 1 ELSE 0

\* the pool of the opening call handed on in place of the bucket
HardPoolAll(guessPartition, wm, gs) == gs

\* The follow-up pool of solve_hard for the bucket keyed wm: the closure's
\* guesses is the bucket of guess_partition found by get(&wm) (line 265)
HardPool(guessPartition, wm, gs) == guessPartition[wm]

RECURSIVE SolveEasy(_, _, _, _)
RECURSIVE EasyFold(_, _, _, _, _)

\* try_fold of solve_easy (lines 231-235) over the buckets keyed keys.  The
\* total is a sum, the same in every iteration order of the map; a None stops
\* the fold.
EasyFold(gs, partition, keys, d, tot) ==
    IF keys = {} \/ tot = OptNone THEN tot
    ELSE LET k == CHOOSE x \in keys : TRUE
         IN  EasyFold(gs, partition, keys \ {k}, d,
                ParProcess([i \in 1..Len(gs) |->
                               SolveEasy(gs[i], gs, partition[k], d - 1)],
                           tot[1] + Len(partition[k])))

\* solve_easy(guess, guesses, answers, depth)
SolveEasy(g, gs, ans, d) ==
    IF Len(ans) = 1 THEN OptSome(1)
    ELSE IF d = 0 THEN OptNone
    ELSE LET partition == WordPartition(ans, g)
             init == InitCredit(partition)
             rest == (DOMAIN partition) \ {CORRECT}
         IN  IF Cardinality(DOMAIN partition) = 1 THEN OptNone
             ELSE IF Cardinality(rest) = Len(ans)
             THEN OptSome(2 * Cardinality(rest) - init)
             ELSE EasyFold(gs, partition, rest, d, OptSome(init))

\* try_fold of solve_hard (lines 262-270)
RECURSIVE HardFold(_, _, _, _, _, _)
HardFold(gs, guessPartition, partition, keys, d, tot) ==
    IF keys = {} \/ tot = OptNone THEN tot
    ELSE LET k == CHOOSE x \in keys : TRUE
             pool == HardPool(guessPartition, k, gs)
         IN  HardFold(gs, guessPartition, partition, keys \ {k}, d,
                IF k \in DOMAIN guessPartition
                THEN ParProcess([i \in 1..Len(pool) |->
                                    SolveEasy(pool[i], pool, partition[k], d - 1)],
                                tot[1] + Len(partition[k]))
                ELSE OptNone)

\* solve_hard(guess, guesses, answers, depth)
SolveHard(g, gs, ans, d) ==
    IF Len(ans) = 1 THEN OptSome(1)
    ELSE IF d = 0 THEN OptNone
    ELSE LET partition == WordPartition(ans, g)
             init == InitCredit(partition)
             rest == (DOMAIN partition) \ {CORRECT}
         IN  IF Cardinality(DOMAIN partition) = 1 THEN OptNone
             ELSE IF Cardinality(rest) = Len(ans)
             THEN OptSome(2 * Cardinality(rest) - init)
             ELSE HardFold(gs, WordPartition(gs, g), partition, rest, d,
                           OptSome(init))

RECURSIVE SolveHardLimited(_, _, _)
RECURSIVE LimitedFold(_, _, _, _)

\* try_fold of solve_hard_limited (lines 201-205)
LimitedFold(partition, keys, d, tot) ==
    IF keys = {} \/ tot = OptNone THEN tot
    ELSE LET k == CHOOSE x \in keys : TRUE
         IN  LimitedFold(partition, keys \ {k}, d,
                ParProcess([i \in 1..Len(partition[k]) |->
                               SolveHardLimited(partition[k][i], partition[k], d - 1)],
                           tot[1] + Len(partition[k])))

\* solve_hard_limited(guess, dict, depth), on an OffsetDictionary
SolveHardLimited(g, ws, d) ==
    IF Len(ws) = 1 THEN OptSome(1)
    ELSE IF d = 0 THEN OptNone
    ELSE LET partition == OffsetPartition(ws, g)
         IN  IF Cardinality(DOMAIN partition) = Len(ws)
             THEN OptSome(2 * Cardinality(DOMAIN partition) - 1)
             ELSE LimitedFold(partition, (DOMAIN partition) \ {CORRECT}, d,
                              OptSome(1))

-----------------------------------------------------------------------------
(* The calls made below an entry call, as records: which function, at which *)
(* ply (the entry call is ply 1), for the bucket of which code, with which  *)
(* guess, pools and depth, and the answers and depth of the call that made  *)
(* it.                                                                       *)

CallRec(fn, ply, code, g, gs, ans, d, byAns, byD) ==
    [fn |-> fn, ply |-> ply, code |-> code, guess |-> g, gs |-> gs,
     ans |-> ans, d |-> d, by |-> [ans |-> byAns, d |-> byD]]

\* The calls of solve_easy made below solve_easy(g, gs, ans, d), itself at
\* ply: line 233, for every bucket the fold can reach and every member of
\* guesses
RECURSIVE EasyCalls(_, _, _, _, _)
EasyCalls(g, gs, ans, d, ply) ==
    IF Len(ans) = 1 \/ d = 0 THEN {}
    ELSE LET partition == WordPartition(ans, g)
             rest == (DOMAIN partition) \ {CORRECT}
         IN  IF Cardinality(DOMAIN partition) = 1 \/ Cardinality(rest) = Len(ans)
             THEN {}
             ELSE UNION {UNION {
                    {CallRec("easy", ply + 1, k, gs[i], gs, partition[k], d - 1,
                             ans, d)}
                    \cup EasyCalls(gs[i], gs, partition[k], d - 1, ply + 1) :
                    i \in 1..Len(gs)} : k \in rest}

\* The calls of solve_easy made below solve_hard(g, gs, ans, d): line 267
HardCalls(g, gs, ans, d) ==
    IF Len(ans) = 1 \/ d = 0 THEN {}
    ELSE LET partition == WordPartition(ans, g)
             rest == (DOMAIN partition) \ {CORRECT}
             guessPartition == WordPartition(gs, g)
         IN  IF Cardinality(DOMAIN partition) = 1 \/ Cardinality(rest) = Len(ans)
             THEN {}
             ELSE UNION {
                    LET pool == HardPool(guessPartition, k, gs)
                    IN  UNION {
                          {CallRec("easy", 2, k, pool[i], pool, partition[k],
                                   d - 1, ans, d)}
                          \cup EasyCalls(pool[i], pool, partition[k], d - 1, 2) :
                          i \in 1..Len(pool)} :
                    k \in rest \cap DOMAIN guessPartition}

\* The calls of solve_hard_limited made below solve_hard_limited(g, ws, d):
\* line 203
RECURSIVE LimitedCalls(_, _, _, _)
LimitedCalls(g, ws, d, ply) ==
    IF Len(ws) = 1 \/ d = 0 THEN {}
    ELSE LET partition == OffsetPartition(ws, g)
         IN  IF Cardinality(DOMAIN partition) = Len(ws) THEN {}
             ELSE UNION {UNION {
                    {CallRec("limited", ply + 1, k, partition[k][i], <<>>,
                             partition[k], d - 1, ws, d)}
                    \cup LimitedCalls(partition[k][i], partition[k], d - 1, ply + 1) :
                    i \in 1..Len(partition[k])} :
                    k \in (DOMAIN partition) \ {CORRECT}}

-----------------------------------------------------------------------------
(* The tree search as calls in progress.  tasks maps a path to a call that  *)
(* is waiting or running: a call of solve that has ranked its candidates    *)
(* and is expanding them (lines 183-186), at path p, has one task           *)
(* p \o <<i>> per retained candidate it has started, each a call of         *)
(* slow_solution; a call of slow_solution at path q folds over its buckets  *)
(* one at a time, and while the call of solve for the bucket keyed wm is    *)
(* expanding, that call is at q \o <<wm>>.  What a call does alone, on its  *)
(* own thread, is one step.                                                 *)

Front(p) == SubSeq(p, 1, Len(p) - 1)
Last(p) == p[Len(p)]

Put(ts, p, node) ==
    [x \in (DOMAIN ts) \cup {p} |-> IF x = p THEN node ELSE ts[x]]
Drop(ts, p) == [x \in (DOMAIN ts) \ {p} |-> ts[x]]

ChildrenOf(ts, p) == {x \in DOMAIN ts : Len(x) = Len(p) + 1 /\ Front(x) = p}

SolveNode(gs, ans, sm, d, heap) ==
    [kind |-> "solve", gs |-> gs, ans |-> ans, sm |-> sm, d |-> d,
     heap |-> [i \in 1..Len(heap) |-> heap[i].word],
     todo |-> 1..Len(heap), got |-> {}]

\* up is the depth of the caller: slow_solution is given up - 1 as depth
SlowNode(w, gs, ans, sm, d, up) ==
    [kind |-> "slow", word |-> w, gs |-> gs, ans |-> ans, sm |-> sm, d |-> d,
     up |-> up,
     left |-> DOMAIN WordPartition(ans, w),
     acc |-> [guess |-> w, size |-> 0, solution |-> {}]]

\* solve from its entry to line 182, on the caller's thread: the result
\* returned, a panic, or the heap to expand
Begin(gs, ans, sm, d) ==
    IF SolveBase(ans, d).kind # "continue"
    THEN {[kind |-> SolveBase(ans, d).kind, sol |-> SolveBase(ans, d).sol,
           heap |-> <<>>]}
    ELSE {[kind |-> (IF r.kind = "break" THEN "some" ELSE r.kind),
           sol |-> r.sol, heap |-> r.heap] :
             r \in RankOutcomes(gs, ans, breadth, d)}

\* lines 59-63 with the partition taken by guesses.word(0), not by self.word
SlowPartitionsOfFirst(w, gs, sm) ==
    IF hard /\ ~sm THEN WordPartition(gs, gs[1]) ELSE NoMap

\* lines 59-63 of slow_solution
SlowPartitions(w, gs, sm) ==
    IF hard /\ ~sm THEN WordPartition(gs, w) ELSE NoMap

\* A call of slow_solution returns o: to main, or to the call of solve that
\* started it as a task, whose filter_map keeps a Some
ReturnSlow(ts, q, o) ==
    IF q = <<>>
    THEN [fin |-> TRUE, res |-> o, tasks |-> <<>>]
    ELSE [fin |-> FALSE, res |-> None,
          tasks |-> IF o.kind = "some"
                    THEN [Drop(ts, q) EXCEPT ![Front(q)].got = @ \cup {o.sol}]
                    ELSE Drop(ts, q)]

\* The call of solve for the bucket keyed wm, of length len, returns o to
\* the call of slow_solution at q (lines 81-88): a Some is added to the
\* solution so far, a None ends the fold and the call
ReturnToSlow(ts, q, wm, len, o) ==
    IF o.kind = "some"
    THEN [fin |-> FALSE, res |-> None,
          tasks |-> [ts EXCEPT ![q].acc = AddBucket(@, wm, len, o.sol),
                               ![q].left = @ \ {wm}]]
    ELSE ReturnSlow(ts, q, None)

-----------------------------------------------------------------------------
(* main.rs: the calls main makes, on the word lists and the configuration   *)
(* drawn.  search names the call: solve (line 75), slow_solution on a       *)
(* first guess (lines 72-73), solve_easy (line 56), solve_hard (line 40) or *)
(* solve_hard_limited (line 18).  depth, breadth, hard are the fields of    *)
(* Config; guess is the first guess, or the guess the batch call is made    *)
(* for.                                                                      *)

\* The word lists drawn: the words of the canonical list, some left out
MainLists ==
    {d \in WordLists :
        \A i, j \in 1..Len(d) : i < j =>
            \E m, n \in 1..Len(LegalAnswers) :
                m < n /\ LegalAnswers[m] = d[i] /\ LegalAnswers[n] = d[j]}

mainFixed == <<answer, matches, dict, part, weight, costs, partials, nranked,
               best, pending, expanded, search, guess, guesses, answers,
               offsets, same, breadth, depth, hard>>

\* answers.index_of(guess), the index go is called with (main.rs line 29)
IndexOf(w) == (CHOOSE i \in 1..Len(LegalAnswers) : LegalAnswers[i] = w) - 1

\* main has started: nothing is read yet
InitMain ==
    /\ IdleCodec /\ IdleDict /\ IdleSolve /\ IdlePar /\ IdleMain
    /\ pc = "boot"

\* What reading the configuration leaves as it is
configFixed == <<answer, matches, dict, part, weight, costs, partials, total,
                 nranked, best, pending, expanded, result, tasks, called>>

\* main.rs lines 9-14 and 70-76: the configuration is read, the two
\* dictionaries are built, and no search flag is set: main goes to the tree
\* search, from a first guess if one is given
ConfigureTree ==
    /\ pc = "boot"
    /\ pc' = "main"
    /\ depth' \in 0..MaxDepth
    /\ search' \in {"solve", "slow"}
    /\ guess' \in IF search' = "solve" THEN {NoWord} ELSE Pool
    /\ guesses' \in MainLists /\ answers' \in MainLists
    /\ same' \in {FALSE} \cup {guesses' = answers'}
    /\ breadth' \in 0..MaxBreadth
    /\ hard' \in BOOLEAN
    /\ offsets' = <<>>
    /\ UNCHANGED configFixed

\* main.rs lines 9-14, 15-16, 38 and 54: the configuration is read with the
\* search flag set: main goes to solve_easy, to solve_hard, or with
\* limit_guesses to solve_hard_limited on the OffsetDictionary
ConfigureBatch ==
    /\ pc = "boot"
    /\ pc' = "main"
    /\ depth' \in 0..MaxDepth
    /\ \/ /\ search' \in {"easy", "hard"}
          /\ guess' \in Pool
          /\ guesses' \in MainLists /\ answers' \in MainLists
          /\ same' = FALSE /\ breadth' = 0
          /\ hard' = (search' = "hard")
          /\ offsets' = <<>>
       \/ /\ search' = "limited"
          /\ guess' \in Pool
          /\ offsets' \in OffsetLists
          /\ guesses' = <<>> /\ answers' = <<>>
          /\ same' = TRUE /\ breadth' = 0 /\ hard' = TRUE
    /\ UNCHANGED configFixed

\* What a step leaves when the entry call has returned res, or has not yet
Settle(r) ==
    /\ tasks' = r.tasks
    /\ IF r.fin
       THEN pc' = "returned" /\ result' = r.res
       ELSE pc' = "running" /\ UNCHANGED result

\* main.rs line 75: solve is called and runs to a return, a panic, or the
\* point where it hands its retained candidates to the thread pool
StartSolve ==
    /\ pc = "main" /\ search = "solve"
    /\ called' = {CallRec("solve", 1, CORRECT, NoWord, guesses, answers, depth,
                          <<>>, depth)}
    /\ \E b \in Begin(guesses, answers, same, depth) :
          \/ /\ b.kind \in {"some", "none"}
             /\ result' = [kind |-> b.kind, sol |-> b.sol]
             /\ pc' = "returned"
             /\ UNCHANGED tasks
          \/ /\ b.kind = "panic"
             /\ pc' = "panicked"
             /\ UNCHANGED <<tasks, result>>
          \/ /\ b.kind = "heap"
             /\ tasks' = Put(<<>>, <<>>,
                             SolveNode(guesses, answers, same, depth, b.heap))
             /\ pc' = "running"
             /\ UNCHANGED result
    /\ UNCHANGED <<mainFixed, total>>

\* main.rs lines 72-73: Guess::new and the call of slow_solution with
\* conf.depth - 1, which overflows at depth 0
StartSlow ==
    /\ pc = "main" /\ search = "slow"
    /\ \/ /\ depth = 0
          /\ pc' = "panicked"
          /\ UNCHANGED tasks
       \/ /\ tasks' = Put(<<>>, <<>>,
                          SlowNode(guess, guesses, answers, same, Minus1(depth),
                                   depth))
          /\ pc' = "running"
    /\ UNCHANGED <<mainFixed, total, result, called>>

\* line 184: the thread pool starts the expansion of one retained candidate
Spawn ==
    /\ pc = "running"
    /\ \E p \in DOMAIN tasks :
          /\ tasks[p].kind = "solve"
          /\ \E i \in tasks[p].todo :
                tasks' = Put([tasks EXCEPT ![p].todo = @ \ {i}], p \o <<i>>,
                             SlowNode(tasks[p].heap[i], tasks[p].gs, tasks[p].ans,
                                      tasks[p].sm, Minus1(tasks[p].d),
                                      tasks[p].d))
    /\ UNCHANGED <<mainFixed, total, result, called, pc>>

\* lines 71-88 for one bucket, up to the return of the call of solve or to
\* the point where that call hands its candidates to the thread pool
Step ==
    /\ pc = "running"
    /\ \E q \in DOMAIN tasks :
          /\ tasks[q].kind = "slow"
          /\ ChildrenOf(tasks, q) = {}
          /\ \E wm \in tasks[q].left :
             LET t == tasks[q]
                 bucket == WordPartition(t.ans, t.word)[wm]
                 partitions == SlowPartitions(t.word, t.gs, t.sm)
                 pool == IF hard /\ t.sm THEN bucket
                         ELSE IF hard THEN partitions[wm]
                         ELSE t.gs
             IN  \/ /\ hard /\ ~t.sm /\ wm \notin DOMAIN partitions
                    /\ pc' = "panic_unwrap"
                    /\ UNCHANGED <<tasks, result, called>>
                 \/ /\ ~(hard /\ ~t.sm /\ wm \notin DOMAIN partitions)
                    /\ called' = called \cup
                          {CallRec("solve", (Len(q) \div 2) + 2, wm, t.word, pool,
                                   bucket, t.d, t.ans, t.up)}
                    /\ \E b \in Begin(pool, bucket, hard /\ t.sm, t.d) :
                          \/ /\ b.kind \in {"some", "none"}
                             /\ Settle(ReturnToSlow(tasks, q, wm, Len(bucket),
                                          [kind |-> b.kind, sol |-> b.sol]))
                          \/ /\ b.kind = "panic"
                             /\ pc' = "panicked"
                             /\ UNCHANGED <<tasks, result>>
                          \/ /\ b.kind = "heap"
                             /\ tasks' = Put(tasks, q \o <<wm>>,
                                   SolveNode(pool, bucket, hard /\ t.sm, t.d, b.heap))
                             /\ UNCHANGED <<pc, result>>
    /\ UNCHANGED <<mainFixed, total>>

\* line 89: the fold is over and slow_solution returns the solution
FinishSlow ==
    /\ pc = "running"
    /\ \E q \in DOMAIN tasks :
          /\ tasks[q].kind = "slow"
          /\ tasks[q].left = {}
          /\ Settle(ReturnSlow(tasks, q, Some(tasks[q].acc)))
    /\ UNCHANGED <<mainFixed, total, called>>

\* line 186: every expansion is over; the call of solve returns one of
\* least size, or None, to main or to the call of slow_solution that made it
Reduce ==
    /\ pc = "running"
    /\ \E p \in DOMAIN tasks :
          /\ tasks[p].kind = "solve"
          /\ tasks[p].todo = {}
          /\ ChildrenOf(tasks, p) = {}
          /\ \E o \in IF tasks[p].got = {} THEN {None}
                      ELSE {Some(t) : t \in MinBySize(tasks[p].got)} :
                IF p = <<>>
                THEN Settle([fin |-> TRUE, res |-> o, tasks |-> <<>>])
                ELSE Settle(ReturnToSlow(Drop(tasks, p), Front(p), Last(p),
                                         Len(tasks[p].ans), o))
    /\ UNCHANGED <<mainFixed, total, called>>

\* main.rs lines 56, 40 and 18: one batch call, with conf.depth - 1
RunBatch ==
    /\ pc = "main" /\ search \in {"easy", "hard", "limited"}
    /\ \/ /\ depth = 0
          /\ pc' = "panicked"
          /\ UNCHANGED <<total, called>>
       \/ /\ search = "easy"
          /\ total' = SolveEasy(guess, guesses, answers, Minus1(depth))
          /\ called' = EasyCalls(guess, guesses, answers, Minus1(depth), 1)
          /\ pc' = "returned"
       \/ /\ search = "hard"
          /\ total' = SolveHard(guess, guesses, answers, Minus1(depth))
          /\ called' = HardCalls(guess, guesses, answers, Minus1(depth))
          /\ pc' = "returned"
       \/ /\ search = "limited"
          /\ total' = SolveHardLimited(IndexOf(guess), offsets, Minus1(depth))
          /\ called' = LimitedCalls(IndexOf(guess), offsets, Minus1(depth), 1)
          /\ pc' = "returned"
    /\ UNCHANGED <<mainFixed, result, tasks>>

NextMain ==
    \/ ConfigureTree \/ ConfigureBatch \/ StartSolve \/ StartSlow \/ Spawn \/ Step \/ FinishSlow \/ Reduce
    \/ RunBatch

SpecMain == InitMain /\ [][NextMain]_vars

\* The program has come to its end: main has its result, or a panic
Ended == pc \in {"returned", "panicked", "panic_unwrap"}

\* Every call that can take a step eventually takes one: the main thread
\* runs on and the thread pool runs every task it was given.  This is weak
\* fairness of NextMain, WF_vars(NextMain), with ENABLED <<NextMain>>_vars
\* written as ~Ended: a step is possible exactly as long as the program
\* has not ended (the second conjunct of C12_Terminates).
FairSpecMain == SpecMain /\ ([]<>Ended \/ []<><<NextMain>>_vars)

\* The batch calls alone
NextBatch == ConfigureBatch \/ RunBatch
SpecBatch == InitMain /\ [][NextBatch]_vars

-----------------------------------------------------------------------------
(* Termination *)

\* The depth at which a function returns without recursing
Floor(fn) == IF fn = "solve" THEN 1 ELSE 0

\* main calls solve with depth >= 1, or a batch mode with depth - 1 >= 0
C12_Pre ==
    /\ pc # "boot"
    /\ search \in {"solve", "easy", "hard", "limited"}
    /\ depth >= 1

\* solve is called with a breadth and with pools that keep it clear of the
\* two panics of the tree search: peek().unwrap() on a heap of capacity 0
\* and partitions.get(&wm).unwrap() on a pool that lacks an answer
C12_NoPanic ==
    /\ search = "solve" => breadth >= 1
    /\ (search = "solve" /\ hard /\ ~same) =>
          \A i \in 1..Len(answers) : \E j \in 1..Len(guesses) :
              guesses[j] = answers[i]

\* Some call can take a step: a candidate waits to be started, a call of
\* slow_solution whose call of solve is over can go on with its fold, or a
\* call of solve whose tasks are all over can reduce
C12_CanStep ==
    \E p \in DOMAIN tasks :
        \/ tasks[p].kind = "solve" /\ tasks[p].todo # {}
        \/ tasks[p].kind = "solve" /\ ChildrenOf(tasks, p) = {}
        \/ tasks[p].kind = "slow" /\ ChildrenOf(tasks, p) = {}

-----------------------------------------------------------------------------
(* The cost of a batch call whose remaining buckets are all singletons *)

\* The entry call's partition of the answers and its buckets other than the
\* Correct one
EntryPartition == WordPartition(answers, guess)
EntryRest == (DOMAIN EntryPartition) \ {CORRECT}

\* solve_easy or solve_hard has returned from a call with more than one
\* answer and depth >= 1 (main passes depth - 1) whose remaining buckets are
\* all singletons
SingletonCase ==
    /\ pc = "returned" /\ search \in {"easy", "hard"}
    /\ Len(answers) > 1 /\ depth >= 2
    /\ \A k \in EntryRest : Len(EntryPartition[k]) = 1

\* Every remaining bucket has a follow-up guess: in solve_easy the pool has a
\* member, in solve_hard some guess has the bucket's code against the opening
\* guess
HasFollowUp ==
    IF search = "easy" THEN guesses # <<>>
    ELSE EntryRest \subseteq DOMAIN WordPartition(guesses, guess)

\* C14 as stated: with every remaining bucket a singleton the returned cost
\* is 2 * bucketCount - initialCredit, bucketCount the number of remaining
\* buckets and initialCredit 1 if a Correct bucket was removed and 0 if not.
C14_ShortCircuitCost ==
    SingletonCase =>
        total = OptSome(2 * Cardinality(EntryRest)
                        - (IF CORRECT \in DOMAIN EntryPartition THEN 1 ELSE 0))

\* C14 amended: with every remaining bucket a singleton the returned cost is
\* 2 * bucketCount + initialCredit.  Without a Correct bucket that is the
\* short-circuit's 2 * bucketCount; with one the short-circuit cannot fire
\* and the fold returns 1 + 2 * bucketCount when every remaining bucket has
\* a follow-up guess, and nothing when one has none.
C14_SingletonCost ==
    SingletonCase =>
        total = IF CORRECT \notin DOMAIN EntryPartition
                THEN OptSome(2 * Cardinality(EntryRest))
                ELSE IF HasFollowUp
                THEN OptSome(2 * Cardinality(EntryRest) + 1)
                ELSE OptNone

\* solve_hard has returned 5 for an opening guess that is one of three
\* answers, the two others each alone in a bucket
C14_Witness ==
    /\ SingletonCase /\ search = "hard"
    /\ CORRECT \in DOMAIN EntryPartition
    /\ Cardinality(EntryRest) = 2
    /\ total = OptSome(5)

-----------------------------------------------------------------------------
(* The guess pools of solve_hard *)

\* solve_hard has returned from a call that went into its fold (line 262):
\* more than one answer, depth >= 1, more than one bucket, no short-circuit
HardFolded ==
    /\ pc = "returned" /\ search = "hard"
    /\ Len(answers) > 1 /\ depth >= 2
    /\ Cardinality(DOMAIN EntryPartition) # 1
    /\ Cardinality(EntryRest) # Len(answers)

\* The members of guesses whose feedback against the opening guess is c
ConsistentGuesses(c) ==
    {guesses[i] : i \in {j \in 1..Len(guesses) :
                            WordMatchFrom(guess, guesses[j]) = c}}

\* The guesses evaluated at the second ply for the bucket with code c
SecondPlyGuesses(c) == {r.guess : r \in {x \in called : x.ply = 2 /\ x.code = c}}

\* The second-ply part of C15: for the bucket with code c exactly the
\* consistent guesses are evaluated, and the result is absent if there are
\* none
SecondPlyRestricted ==
    \A c \in EntryRest :
        /\ SecondPlyGuesses(c) = ConsistentGuesses(c)
        /\ ConsistentGuesses(c) = {} => total = OptNone

\* C15 as stated: the second-ply guesses for an answer bucket with code c
\* are exactly the members of guesses whose feedback against the opening
\* guess is c (absent result if none), and the guesses at the third and
\* later plies are drawn from the unrestricted pool given to solve_hard.
C15_OnePlyRestriction ==
    HardFolded =>
        /\ SecondPlyRestricted
        /\ \A r \in called : r.ply >= 3 => r.gs = guesses

\* C15 amended: the second-ply guesses are as stated, and the guesses at the
\* third and later plies are drawn from the same restricted pool as at the
\* second ply: the members of guesses whose feedback against the opening
\* guess is the code of the second-ply bucket the call's answers lie in.
C15_RestrictionKept ==
    HardFolded =>
        /\ SecondPlyRestricted
        /\ \A r \in called :
              r.ply >= 3 =>
                 \E c \in EntryRest :
                    /\ Members(r.ans) \subseteq Members(EntryPartition[c])
                    /\ Members(r.gs) = ConsistentGuesses(c)
                    /\ r.guess \in ConsistentGuesses(c)

\* solve_hard has made a third-ply call whose pool is a proper part of the
\* pool it was given
C15_Witness ==
    /\ HardFolded
    /\ \E r \in called :
          /\ r.ply = 3
          /\ Members(r.gs) # Members(guesses)
          /\ \E c \in EntryRest : Members(r.gs) = ConsistentGuesses(c)

-----------------------------------------------------------------------------
(* The tasks of the tree search *)

\* The tasks that are live: the calls of slow_solution started by a call of
\* solve (line 185) and not yet over
LiveTasks == {p \in DOMAIN tasks : tasks[p].kind = "slow" /\ p # <<>>}

\* The calls of solve, in progress, inside which the task at p runs
FanOutsAbove(p) ==
    {k \in 0..(Len(p) - 1) :
        /\ SubSeq(p, 1, k) \in DOMAIN tasks
        /\ tasks[SubSeq(p, 1, k)].kind = "solve"}

TreeSearch == search \in {"solve", "slow"}

\* C16 as stated: in the tree search only one call of solve, the first,
\* expands its candidates as parallel tasks: no task runs inside a call of
\* solve that itself runs inside a task, and the number of live tasks never
\* exceeds breadth.
C16_SingleFanOut ==
    TreeSearch =>
        /\ \A p \in LiveTasks : Cardinality(FanOutsAbove(p)) = 1
        /\ Cardinality(LiveTasks) <= breadth

\* C16 amended: every call of solve that comes to its expansion starts its
\* retained candidates as tasks, inside a task as well as at the top.  A
\* call of solve has at most breadth tasks live, all of them calls of
\* slow_solution, and a call of slow_solution has at most one call of solve
\* in progress.
C16_NestedFanOut ==
    TreeSearch =>
        \A p \in DOMAIN tasks :
            /\ tasks[p].kind = "solve" =>
                  /\ Cardinality(ChildrenOf(tasks, p)) <= breadth
                  /\ \A x \in ChildrenOf(tasks, p) : tasks[x].kind = "slow"
            /\ tasks[p].kind = "slow" =>
                  /\ Cardinality(ChildrenOf(tasks, p)) <= 1
                  /\ \A x \in ChildrenOf(tasks, p) : tasks[x].kind = "solve"

\* A task runs inside a call of solve that runs inside a task, and more
\* tasks than breadth are live
C16_Witness ==
    /\ search = "solve" /\ depth >= 1 /\ breadth >= 1
    /\ \E p \in LiveTasks : Cardinality(FanOutsAbove(p)) = 2
    /\ Cardinality(LiveTasks) > breadth

-----------------------------------------------------------------------------
(* Hard mode with two pools *)

\* The tree search in hard mode, the two pools distinct objects and every
\* answer a member of guesses
HardDistinct ==
    /\ search \in {"solve", "slow"}
    /\ hard /\ ~same
    /\ Members(answers) \subseteq Members(guesses)

\* C17: in hard mode with distinct pools and every answer among the guesses,
\* every call of solve has its answers among its guesses, the lookup
\* partitions.get(&wm).unwrap() of slow_solution never fails, and the pool
\* handed to a recursive call of solve is never empty.
C17_PoolsCoverAnswers ==
    HardDistinct =>
        /\ pc # "panic_unwrap"
        /\ \A c \in called :
              c.fn = "solve" =>
                 /\ Members(c.ans) \subseteq Members(c.gs)
                 /\ c.ply > 1 => c.gs # <<>>

\* The search has returned a tree after a recursive call of solve on more
\* than one answer whose pool, found by the lookup, is a proper part of
\* guesses
C17_Witness ==
    /\ HardDistinct
    /\ pc = "returned" /\ result.kind = "some"
    /\ \E c \in called :
          /\ c.fn = "solve" /\ c.ply > 1
          /\ Len(c.ans) > 1
          /\ Members(c.gs) # Members(guesses)

-----------------------------------------------------------------------------
(* The depth the tree search hands to solve *)

\* C18: for a configured depth >= 1, on both entry paths of the tree search
\* (solve with depth, slow_solution on the first guess with depth - 1), no
\* call of solve on more than one answer is given depth 0.
C18_NoDepthZero ==
    (search \in {"solve", "slow"} /\ depth >= 1) =>
        \A c \in called :
            (c.fn = "solve" /\ Len(c.ans) > 1) => c.d # 0

=============================================================================
